---- MODULE Spec2Model ----
(***************************************************************************)
(* Decode engine of the ITF value tree: the reflective (serde) deserializer *)
(* of serde-itf/src/de.rs and the decoders generated by the derive macros   *)
(* of apalache-itf-derive/src/lib.rs.                                       *)
(***************************************************************************)
EXTENDS Integers, Sequences, FiniteSets, TLC

VARIABLES pc, call, tgt, arg, dcl, hmap, todo, cons, built, enumde, result

vars == <<pc, call, tgt, arg, dcl, hmap, todo, cons, built, enumde, result>>

(***************************************************************************)
(* Bounds of the explored inputs.                                           *)
(***************************************************************************)
\* integers are sampled at distance <= MaxOff from 0 and from each +-2^k
MaxOff == 56
\* longest List / Tuple / Set payload
MaxLen == 3
\* most entries of a Record
MaxEntries == 2
\* most variants of a declared enumeration
MaxVariants == 2
\* most named fields of a declared struct or variant
MaxFields == 2

(***************************************************************************)
(* Integers.  i64, u64, i128, u128 and BigInt do not fit the checker's      *)
(* machine integers, so an integer is written <<r, d>>: rank r selects 0    *)
(* (r = 0) or sign(r) * 2^Pow2[|r|], and d is a small offset added to it.   *)
(* With |d| < 2^6 the denoted integers are distinct and ordered             *)
(* lexicographically, so the range tests below are exact.                   *)
(***************************************************************************)
Pow2 == <<7, 8, 15, 16, 31, 32, 63, 64, 127, 128>>

Ranks == (0 - Len(Pow2)) .. Len(Pow2)

IntSamples == {<<r, d>> : r \in Ranks, d \in (0 - MaxOff) .. MaxOff}

IntLE(a, b) == a[1] < b[1] \/ (a[1] = b[1] /\ a[2] <= b[2])

Small(d) == <<0, d>>

IntTypes == {"i8", "i16", "i32", "i64", "i128", "u8", "u16", "u32", "u64", "u128"}

\* $ty::MIN
MinOf(ty) ==
  CASE ty = "i8" -> <<-1, 0>> [] ty = "i16" -> <<-3, 0>> [] ty = "i32" -> <<-5, 0>>
    [] ty = "i64" -> <<-7, 0>> [] ty = "i128" -> <<-9, 0>>
    [] OTHER -> <<0, 0>>

\* $ty::MAX
MaxOf(ty) ==
  CASE ty = "i8" -> <<1, -1>> [] ty = "i16" -> <<3, -1>> [] ty = "i32" -> <<5, -1>>
    [] ty = "i64" -> <<7, -1>> [] ty = "i128" -> <<9, -1>>
    [] ty = "u8" -> <<2, -1>> [] ty = "u16" -> <<4, -1>> [] ty = "u32" -> <<6, -1>>
    [] ty = "u64" -> <<8, -1>> [] ty = "u128" -> <<10, -1>>

Fits(ty, n) == IntLE(MinOf(ty), n) /\ IntLE(n, MaxOf(ty))

\* the payload of Value::Number is an i64
I64Samples == {n \in IntSamples : Fits("i64", n)}

(***************************************************************************)
(* Value: the variants of the value tree.  Record, Map, Set, List and Tuple *)
(* carry the sequence their into_iter() yields; Record keys are unique.     *)
(***************************************************************************)
Bool(b) == <<"Bool", b>>
Number(n) == <<"Number", n>>
String(s) == <<"String", s>>
BigInt(n) == <<"BigInt", n>>
List(items) == <<"List", items>>
Tuple(items) == <<"Tuple", items>>
Set(items) == <<"Set", items>>
Map(entries) == <<"Map", entries>>
Record(entries) == <<"Record", entries>>
Unserializable == <<"Unserializable">>

(***************************************************************************)
(* Outcomes of a decode call: Ok(v), Err(e), or the process aborting on a   *)
(* failed unwrap().                                                         *)
(***************************************************************************)
Ok(v) == <<"Ok", v>>
Err(e) == <<"Err", e>>
Panic(what) == <<"Panic", what>>
NoResult == <<"None">>

IsOk(r) == r[1] = "Ok"
IsErr(r) == r[1] = "Err"
IsPanic(r) == r[1] = "Panic"

\* enum Error of de.rs
Custom(msg) == <<"Custom", msg>>
UnsupportedType(name) == <<"UnsupportedType", name>>
NumberError(n, ty) == <<"Number", n, ty>>
BigIntError(n, ty) == <<"BigInt", n, ty>>

\* serde::de::Error default constructors: each renders a message and calls custom()
invalid_type(unexp, exp) == Custom(<<"invalid type", unexp, exp>>)
invalid_value(unexp, exp) == Custom(<<"invalid value", unexp, exp>>)
invalid_length(len, exp) == Custom(<<"invalid length", len, exp>>)
unknown_variant(name) == Custom(<<"unknown variant", name>>)
missing_field(name) == Custom(<<"missing field", name>>)

unexpected(self) ==
  CASE self[1] = "Bool" -> <<"Bool", self[2]>>
    [] self[1] = "Number" -> <<"Signed", self[2]>>
    [] self[1] = "String" -> <<"Str", self[2]>>
    [] self[1] = "List" -> <<"Seq">>
    [] self[1] = "Map" -> <<"Map">>
    [] self[1] = "Record" -> <<"Other", "record">>
    [] self[1] = "BigInt" -> <<"Other", "bigint">>
    [] self[1] = "Tuple" -> <<"Other", "tuple">>
    [] self[1] = "Set" -> <<"Other", "set">>
    [] self[1] = "Unserializable" -> <<"Other", "unserializable">>

(***************************************************************************)
(* Visitors.  A visitor is the descriptor of the target type that drives    *)
(* the Deserializer: <<"bool">>, <<"int", ty>>, <<"String">>, <<"f64">>,    *)
(* <<"unit">>, <<"IgnoredAny">>, <<"Any">> (a self-describing target that   *)
(* keeps what it is shown), <<"ByteBuf">>, <<"Option", T>>,                 *)
(* <<"Newtype", T>>, <<"Tuple", Ts>>, <<"Vec", T>>, <<"HashMap", K, V>>,     *)
(* <<"Struct", <<<<name, T>>, ...>>>>, <<"Enum", <<<<name, shape>>, ...>>>>  *)
(* with shape <<"Unit">>, <<"Newtype", T>>, <<"Tuple", Ts>> or               *)
(* <<"Struct", fs>>, and the identifier seeds <<"Field", names>> and        *)
(* <<"Variant", names>>.                                                    *)
(***************************************************************************)
RECURSIVE Deserialize(_, _)
RECURSIVE Deserializer(_, _, _)

UnitValue == <<"unit">>
IgnoredAny == <<"IgnoredAny">>

Names(fs) == {fs[i][1] : i \in DOMAIN fs}

IndexOf(fs, name) == CHOOSE i \in DOMAIN fs : fs[i][1] = name /\ \A j \in 1 .. (i - 1) : fs[j][1] # name

visit_bool(visitor, b) ==
  CASE visitor[1] \in {"bool", "Any"} -> Ok(b)
    [] visitor[1] = "IgnoredAny" -> Ok(IgnoredAny)
    [] OTHER -> Err(invalid_type(<<"Bool", b>>, visitor))

\* visit_i8 .. visit_u128: the primitive visitors convert with a range check
visit_int(visitor, n) ==
  CASE visitor[1] = "int" ->
         IF Fits(visitor[2], n) THEN Ok(n) ELSE Err(invalid_value(<<"Signed", n>>, visitor))
    [] visitor[1] \in {"Any", "f64"} -> Ok(n)
    [] visitor[1] = "IgnoredAny" -> Ok(IgnoredAny)
    [] OTHER -> Err(invalid_type(<<"Signed", n>>, visitor))

visit_string(visitor, s) ==
  CASE visitor[1] \in {"String", "Any", "ByteBuf"} -> Ok(s)
    [] visitor[1] = "IgnoredAny" -> Ok(IgnoredAny)
    [] visitor[1] = "Field" -> Ok(IF s \in visitor[2] THEN s ELSE "__ignore")
    [] visitor[1] = "Variant" -> IF s \in visitor[2] THEN Ok(s) ELSE Err(unknown_variant(s))
    [] OTHER -> Err(invalid_type(<<"Str", s>>, visitor))

visit_unit(visitor) ==
  CASE visitor[1] \in {"unit", "Any"} -> Ok(UnitValue)
    [] visitor[1] = "IgnoredAny" -> Ok(IgnoredAny)
    [] OTHER -> Err(invalid_type(<<"Unit">>, visitor))

visit_some(visitor, self) ==
  CASE visitor[1] = "Option" ->
         LET r == Deserialize(visitor[2], self) IN IF IsOk(r) THEN Ok(<<"Some", r[2]>>) ELSE r
    [] visitor[1] = "IgnoredAny" -> Deserialize(IgnoredAny, self)
    [] OTHER -> Err(invalid_type(<<"Option">>, visitor))

visit_newtype_struct(visitor, self) ==
  CASE visitor[1] = "Newtype" ->
         LET r == Deserialize(visitor[2], self) IN IF IsOk(r) THEN Ok(<<"Newtype", r[2]>>) ELSE r
    [] visitor[1] = "IgnoredAny" -> Deserialize(IgnoredAny, self)
    [] OTHER -> Err(invalid_type(<<"NewtypeStruct">>, visitor))

\* a visitor of fixed arity: one next_element() per component, in order
RECURSIVE next_elements(_, _, _, _)
next_elements(visitor, ts, items, acc) ==
  IF ts = <<>> THEN Ok(acc)
  ELSE IF items = <<>> THEN Err(invalid_length(Len(acc), visitor))
  ELSE LET r == Deserialize(Head(ts), Head(items))
       IN IF IsOk(r) THEN next_elements(visitor, Tail(ts), Tail(items), Append(acc, r[2])) ELSE r

\* mutant: every element is decoded, and the last failure is the one returned
RECURSIVE all_elements_LastError(_, _, _)
all_elements_LastError(t, items, acc) ==
  IF items = <<>> THEN Ok(acc)
  ELSE LET r == Deserialize(t, Head(items))
           rest == all_elements_LastError(t, Tail(items),
                                          IF IsOk(r) THEN Append(acc, r[2]) ELSE acc)
       IN IF IsOk(r) \/ ~IsOk(rest) THEN rest ELSE r

\* a visitor of a growable sequence: next_element() until the iterator ends
RECURSIVE all_elements(_, _, _)
all_elements(t, items, acc) ==
  IF items = <<>> THEN Ok(acc)
  ELSE LET r == Deserialize(t, Head(items))
       IN IF IsOk(r) THEN all_elements(t, Tail(items), Append(acc, r[2])) ELSE r

visit_seq(visitor, items) ==
  CASE visitor[1] = "Tuple" -> next_elements(visitor, visitor[2], items, <<>>)
    [] visitor[1] = "Vec" -> all_elements(visitor[2], items, <<>>)
    [] visitor[1] = "Any" -> all_elements(visitor, items, <<>>)
    [] visitor[1] = "ByteBuf" -> all_elements(<<"int", "u8">>, items, <<>>)
    [] visitor[1] = "IgnoredAny" ->
         LET r == all_elements(visitor, items, <<>>) IN IF IsOk(r) THEN Ok(IgnoredAny) ELSE r
    [] OTHER -> Err(invalid_type(<<"Seq">>, visitor))

\* MapDeserializer::next_key_seed: a Record key is a String turned into a
\* StringDeserializer, a Map key is a Value
next_key(k, key) ==
  IF key[1] = "key" THEN visit_string(k, key[2]) ELSE Deserialize(k, key)

RECURSIVE all_entries(_, _, _, _)
all_entries(k, v, entries, acc) ==
  IF entries = <<>> THEN Ok(acc)
  ELSE LET rk == next_key(k, Head(entries)[1])
       IN IF ~IsOk(rk) THEN rk
          ELSE LET rv == Deserialize(v, Head(entries)[2])
               IN IF IsOk(rv)
                  THEN all_entries(k, v, Tail(entries), Append(acc, <<rk[2], rv[2]>>))
                  ELSE rv

\* the visit_map of a derived struct: entries in iteration order, unknown keys
\* skipped as IgnoredAny, then the first field never seen is missing
RECURSIVE struct_entries(_, _, _)
struct_entries(fs, entries, acc) ==
  IF entries = <<>>
  THEN IF \E i \in DOMAIN fs : fs[i][1] \notin Names(acc)
       THEN LET i == CHOOSE i \in DOMAIN fs :
                       fs[i][1] \notin Names(acc) /\ \A j \in 1 .. (i - 1) : fs[j][1] \in Names(acc)
            IN Err(missing_field(fs[i][1]))
       ELSE Ok(acc)
  ELSE LET rk == next_key(<<"Field", Names(fs)>>, Head(entries)[1])
       IN IF ~IsOk(rk) THEN rk
          ELSE IF rk[2] = "__ignore"
          THEN LET ri == Deserialize(IgnoredAny, Head(entries)[2])
               IN IF IsOk(ri) THEN struct_entries(fs, Tail(entries), acc) ELSE ri
          ELSE IF rk[2] \in Names(acc) THEN Err(Custom(<<"duplicate field", rk[2]>>))
          ELSE LET rv == Deserialize(fs[IndexOf(fs, rk[2])][2], Head(entries)[2])
               IN IF IsOk(rv)
                  THEN struct_entries(fs, Tail(entries), Append(acc, <<rk[2], rv[2]>>))
                  ELSE rv

visit_map_entries(visitor, entries) ==
  CASE visitor[1] = "HashMap" -> all_entries(visitor[2], visitor[3], entries, <<>>)
    [] visitor[1] = "Struct" -> struct_entries(visitor[2], entries, <<>>)
    [] visitor[1] = "Any" -> all_entries(visitor, visitor, entries, <<>>)
    [] visitor[1] = "IgnoredAny" ->
         LET r == all_entries(visitor, visitor, entries, <<>>) IN IF IsOk(r) THEN Ok(IgnoredAny) ELSE r
    [] OTHER -> Err(invalid_type(<<"Map">>, visitor))

(***************************************************************************)
(* impl Deserializer for Value, and the helpers it hands the visitor to.    *)
(***************************************************************************)
visit_map(v, visitor) == visit_map_entries(visitor, v)

visit_record(record, visitor) ==
  visit_map_entries(visitor, [i \in DOMAIN record |-> <<<<"key", record[i][1]>>, record[i][2]>>])

visit_set(v, visitor) == visit_seq(visitor, v)

visit_tuple(v, visitor) == visit_seq(visitor, v)

visit_list(v, visitor) == visit_seq(visitor, v)

\* $ty::try_from(n).unwrap()
try_from_unwrap(ty, n) == IF Fits(ty, n) THEN Ok(n) ELSE Panic(<<"unwrap", "TryFromIntError">>)

\* v.to_i64().unwrap()
to_i64_unwrap(n) == IF Fits("i64", n) THEN Ok(n) ELSE Panic(<<"unwrap", "None">>)

deserialize_number(ty, self, visitor) ==
  IF self[1] = "Number"
  THEN LET x == try_from_unwrap(ty, self[2])
       IN IF IsOk(x) THEN visit_int(visitor, x[2]) ELSE x
  ELSE Err(invalid_type(unexpected(self), visitor))

deserialize_any(self, visitor) ==
  CASE self[1] = "Bool" -> visit_bool(visitor, self[2])
    [] self[1] = "Number" -> visit_int(visitor, self[2])
    [] self[1] = "String" -> visit_string(visitor, self[2])
    [] self[1] = "BigInt" ->
         LET x == to_i64_unwrap(self[2]) IN IF IsOk(x) THEN visit_int(visitor, x[2]) ELSE x
    [] self[1] = "List" -> visit_list(self[2], visitor)
    [] self[1] = "Tuple" -> visit_tuple(self[2], visitor)
    [] self[1] = "Set" -> visit_set(self[2], visitor)
    [] self[1] = "Record" -> visit_record(self[2], visitor)
    [] self[1] = "Map" -> visit_map(self[2], visitor)
    [] self[1] = "Unserializable" -> Err(UnsupportedType("unserializable"))

deserialize_option(self, visitor) == visit_some(visitor, self)

deserialize_bool(self, visitor) ==
  IF self[1] = "Bool" THEN visit_bool(visitor, self[2])
  ELSE Err(invalid_type(unexpected(self), visitor))

deserialize_string(self, visitor) ==
  IF self[1] = "String" THEN visit_string(visitor, self[2])
  ELSE Err(invalid_type(unexpected(self), visitor))

deserialize_char(self, visitor) == deserialize_string(self, visitor)

deserialize_str(self, visitor) == deserialize_string(self, visitor)

deserialize_byte_buf(self, visitor) ==
  CASE self[1] = "String" -> visit_string(visitor, self[2])
    [] self[1] = "List" -> visit_list(self[2], visitor)
    [] OTHER -> Err(invalid_type(unexpected(self), visitor))

deserialize_bytes(self, visitor) == deserialize_byte_buf(self, visitor)

deserialize_unit(self, visitor) == Err(invalid_type(unexpected(self), visitor))

deserialize_f32(self, visitor) == Err(invalid_type(unexpected(self), visitor))

deserialize_f64(self, visitor) == Err(invalid_type(unexpected(self), visitor))

deserialize_unit_struct(self, visitor) == deserialize_unit(self, visitor)

deserialize_newtype_struct(self, visitor) == visit_newtype_struct(visitor, self)

deserialize_seq(self, visitor) ==
  CASE self[1] = "List" -> visit_list(self[2], visitor)
    [] self[1] = "Tuple" -> visit_tuple(self[2], visitor)
    [] OTHER -> Err(invalid_type(unexpected(self), visitor))

deserialize_tuple(self, visitor) == deserialize_seq(self, visitor)

deserialize_tuple_struct(self, visitor) == deserialize_seq(self, visitor)

deserialize_map(self, visitor) ==
  IF self[1] = "Map" THEN visit_map(self[2], visitor)
  ELSE Err(invalid_type(unexpected(self), visitor))

deserialize_struct(self, visitor) ==
  IF self[1] = "Record" THEN visit_record(self[2], visitor)
  ELSE Err(invalid_type(unexpected(self), visitor))

deserialize_identifier(self, visitor) == deserialize_string(self, visitor)

\* mutant: the value is inspected like in deserialize_any
deserialize_ignored_any_Inspects(self, visitor) ==
  IF self[1] = "Unserializable" THEN Err(UnsupportedType("unserializable"))
  ELSE visit_unit(visitor)

\* drop(self); visitor.visit_unit()
deserialize_ignored_any(self, visitor) == visit_unit(visitor)

(***************************************************************************)
(* Enumerations on the reflective path: EnumDeserializer and                *)
(* VariantDeserializer.  `value` is <<"Some", v>> or <<"None">>.            *)
(***************************************************************************)
Some(v) == <<"Some", v>>
None == <<"None">>

\* seed.deserialize(self.variant.into_deserializer())
variant_seed(variant, seed) == visit_string(seed, variant)

unit_variant(value) ==
  IF value[1] = "Some" THEN Deserialize(<<"unit">>, value[2]) ELSE Ok(UnitValue)

newtype_variant_seed(value, seed) ==
  IF value[1] = "Some" THEN Deserialize(seed, value[2])
  ELSE Err(invalid_type(<<"UnitVariant">>, "newtype variant"))

tuple_variant(value, visitor) ==
  CASE value[1] = "Some" /\ value[2][1] = "Tuple" ->
         IF value[2][2] = <<>> THEN visit_unit(visitor) ELSE visit_tuple(value[2][2], visitor)
    [] value[1] = "Some" /\ value[2][1] # "Tuple" ->
         Err(invalid_type(unexpected(value[2]), "tuple variant"))
    [] value[1] = "None" -> Err(invalid_type(<<"UnitVariant">>, "tuple variant"))

struct_variant(value, visitor) ==
  CASE value[1] = "Some" /\ value[2][1] = "Record" -> visit_record(value[2][2], visitor)
    [] value[1] = "Some" /\ value[2][1] # "Record" ->
         Err(invalid_type(unexpected(value[2]), "struct variant"))
    [] value[1] = "None" -> Err(invalid_type(<<"UnitVariant">>, "struct variant"))

\* a derived enum visitor: name the variant, then ask for its shape
visit_enum(visitor, variant, value) ==
  CASE visitor[1] = "Enum" ->
         LET vs == visitor[2]
             id == variant_seed(variant, <<"Variant", Names(vs)>>)
         IN IF ~IsOk(id) THEN id
            ELSE LET shape == vs[IndexOf(vs, id[2])][2]
                     r == CASE shape[1] = "Unit" -> unit_variant(value)
                            [] shape[1] = "Newtype" -> newtype_variant_seed(value, shape[2])
                            [] shape[1] = "Tuple" -> tuple_variant(value, shape)
                            [] shape[1] = "Struct" -> struct_variant(value, shape)
                 IN IF IsOk(r) THEN Ok(<<id[2], r[2]>>) ELSE r
    [] visitor[1] = "IgnoredAny" ->
         LET id == variant_seed(variant, visitor)
         IN IF IsOk(id) THEN newtype_variant_seed(value, visitor) ELSE id
    [] OTHER -> Err(invalid_type(<<"Enum">>, visitor))

\* mutant: the second iter.next() is not looked at, the first entry wins
enum_access_FirstEntry(self) ==
  CASE self[1] = "Record" ->
         IF Len(self[2]) = 0 THEN Err(invalid_value(<<"Map">>, "map with a single key"))
         ELSE Ok(<<self[2][1][1], Some(self[2][1][2])>>)
    [] self[1] = "String" -> Ok(<<self[2], None>>)
    [] OTHER -> Err(invalid_type(unexpected(self), "string or map"))

\* the outcome of the match that opens deserialize_enum: the error returned
\* early, or the EnumDeserializer {variant, value} handed to visit_enum
enum_access(self) ==
  CASE self[1] = "Record" ->
         IF Len(self[2]) = 0 THEN Err(invalid_value(<<"Map">>, "map with a single key"))
         ELSE IF Len(self[2]) > 1 THEN Err(invalid_value(<<"Map">>, "map with a single key"))
         ELSE Ok(<<self[2][1][1], Some(self[2][1][2])>>)
    [] self[1] = "String" -> Ok(<<self[2], None>>)
    [] OTHER -> Err(invalid_type(unexpected(self), "string or map"))

deserialize_enum(self, visitor) ==
  LET a == enum_access(self)
  IN IF IsOk(a) THEN visit_enum(visitor, a[2][1], a[2][2]) ELSE a

EntryPoints ==
  {"any", "option", "bool", "char", "str", "string", "bytes", "byte_buf", "unit", "f32",
   "f64", "unit_struct", "newtype_struct", "seq", "tuple", "tuple_struct", "map", "struct",
   "enum", "identifier", "ignored_any"} \cup IntTypes

Deserializer(ep, self, visitor) ==
  CASE ep = "any" -> deserialize_any(self, visitor)
    [] ep \in IntTypes -> deserialize_number(ep, self, visitor)
    [] ep = "option" -> deserialize_option(self, visitor)
    [] ep = "bool" -> deserialize_bool(self, visitor)
    [] ep = "char" -> deserialize_char(self, visitor)
    [] ep = "str" -> deserialize_str(self, visitor)
    [] ep = "string" -> deserialize_string(self, visitor)
    [] ep = "bytes" -> deserialize_bytes(self, visitor)
    [] ep = "byte_buf" -> deserialize_byte_buf(self, visitor)
    [] ep = "unit" -> deserialize_unit(self, visitor)
    [] ep = "f32" -> deserialize_f32(self, visitor)
    [] ep = "f64" -> deserialize_f64(self, visitor)
    [] ep = "unit_struct" -> deserialize_unit_struct(self, visitor)
    [] ep = "newtype_struct" -> deserialize_newtype_struct(self, visitor)
    [] ep = "seq" -> deserialize_seq(self, visitor)
    [] ep = "tuple" -> deserialize_tuple(self, visitor)
    [] ep = "tuple_struct" -> deserialize_tuple_struct(self, visitor)
    [] ep = "map" -> deserialize_map(self, visitor)
    [] ep = "struct" -> deserialize_struct(self, visitor)
    [] ep = "enum" -> deserialize_enum(self, visitor)
    [] ep = "identifier" -> deserialize_identifier(self, visitor)
    [] ep = "ignored_any" -> deserialize_ignored_any(self, visitor)

\* the entry point the target's Deserialize impl calls
EntryPointOf(t) ==
  CASE t[1] = "int" -> t[2]
    [] t[1] = "bool" -> "bool"
    [] t[1] = "String" -> "string"
    [] t[1] = "f64" -> "f64"
    [] t[1] = "unit" -> "unit"
    [] t[1] = "IgnoredAny" -> "ignored_any"
    [] t[1] = "Any" -> "any"
    [] t[1] = "ByteBuf" -> "byte_buf"
    [] t[1] = "Option" -> "option"
    [] t[1] = "Newtype" -> "newtype_struct"
    [] t[1] = "Tuple" -> "tuple"
    [] t[1] = "Vec" -> "seq"
    [] t[1] = "HashMap" -> "map"
    [] t[1] = "Struct" -> "struct"
    [] t[1] = "Enum" -> "enum"
    [] t[1] \in {"Field", "Variant"} -> "identifier"

Deserialize(t, self) == Deserializer(EntryPointOf(t), self, t)

\* T::deserialize(value)
decode_value(t, v) == Deserialize(t, v)

(***************************************************************************)
(* The derive macros.  A declaration is <<"Struct", fields>>,               *)
(* <<"Enum", variants>> or <<"Union">>; fields is <<"Unit">>,               *)
(* <<"Named", <<<<ident, attrs, ty>>, ...>>>> or <<"Unnamed", tys>>; a      *)
(* variant is <<ident, attrs, fields>>; attrs is the sequence of            *)
(* name = "value" pairs inside #[itf(...)].                                 *)
(***************************************************************************)
\* enum DecodeError of the apalache_itf crate, as the generated code builds it
UnknownTag(t) == <<"UnknownTag", t>>
UnknownVariant(s) == <<"UnknownVariant", s>>
FieldNotFound(n) == <<"FieldNotFound", n>>
InvalidType(s) == <<"InvalidType", s>>
TypeMismatch(expected, actual) == <<"TypeMismatch", expected, actual>>

ItfAttributesDefault == [tag |-> "tag", rename |-> None]

RECURSIVE parse_meta(_, _)
parse_meta(attrs, itf_attrs) ==
  IF attrs = <<>> THEN itf_attrs
  ELSE LET a == Head(attrs)
       IN parse_meta(Tail(attrs),
            CASE a[1] = "rename" -> [itf_attrs EXCEPT !.rename = Some(a[2])]
              [] a[1] = "tag" -> [itf_attrs EXCEPT !.tag = a[2]]
              [] OTHER -> itf_attrs)

parse_itf_attrs(attrs) == parse_meta(attrs, ItfAttributesDefault)

unwrap_or_else(opt, dflt) == IF opt[1] = "Some" THEN opt[2] ELSE dflt

\* mutant: the rename attribute is ignored, the key is the declared name
derive_struct_named_DeclaredKey(cons_, named) ==
  <<cons_, [i \in DOMAIN named |-> <<named[i][1], named[i][1], named[i][3]>>]>>

\* the field initialisers of the generated constructor call, in declaration
\* order: <<ident, key removed from the map, type decoded>>
derive_struct_named(cons_, named) ==
  <<cons_, [i \in DOMAIN named |->
             <<named[i][1], unwrap_or_else(parse_itf_attrs(named[i][2]).rename, named[i][1]),
               named[i][3]>>]>>

\* one match arm: Value::String(s) if s == #value => Ok(Self::#name)
unit_variant_arm(v) == <<unwrap_or_else(parse_itf_attrs(v[2]).rename, v[1]), v[1]>>

unit_enum(variants) ==
  IF \E i \in DOMAIN variants : variants[i][3][1] # "Unit" THEN Panic("unreachable")
  ELSE <<"unit_enum", [i \in DOMAIN variants |-> unit_variant_arm(variants[i])]>>

named_enum(variants, tag) ==
  IF \E i \in DOMAIN variants : variants[i][3][1] # "Named" THEN Panic("unreachable")
  ELSE <<"named_enum", tag,
         [i \in DOMAIN variants |->
            <<unwrap_or_else(parse_itf_attrs(variants[i][2]).rename, variants[i][1]),
              derive_struct_named(variants[i][1], variants[i][3][2])>>]>>

\* mutant: any() in place of all()
AnyFields(variants, kind) == \E i \in DOMAIN variants : variants[i][3][1] = kind

AllFields(variants, kind) == \A i \in DOMAIN variants : variants[i][3][1] = kind

itf_decode(data, attrs) ==
  CASE data[1] = "Struct" ->
         (CASE data[2][1] = "Named" -> <<"struct", derive_struct_named("Self", data[2][2])>>
            [] data[2][1] = "Unnamed" -> <<"struct_unnamed", data[2][2]>>
            [] data[2][1] = "Unit" -> <<"unit_struct">>)
    [] data[1] = "Enum" ->
         IF AllFields(data[2], "Unit") THEN unit_enum(data[2])
         ELSE IF AllFields(data[2], "Named") THEN named_enum(data[2], parse_itf_attrs(attrs).tag)
         ELSE <<"compile_error", "only unit variants or named fields variants are supported">>
    [] data[1] = "Union" -> Panic("unimplemented")

try_from_raw_state(data, attrs) ==
  CASE data[1] = "Struct" ->
         (CASE data[2][1] = "Named" -> <<"raw_state", derive_struct_named("Self", data[2][2])>>
            [] data[2][1] = "Unnamed" -> <<"struct_unnamed", data[2][2]>>
            [] data[2][1] = "Unit" -> <<"unit_struct">>)
    [] data[1] \in {"Enum", "Union"} -> Panic("unimplemented")

(***************************************************************************)
(* DecodeItfValue of the built-in types the generated code calls            *)
(* (apalache_itf crate).                                                    *)
(***************************************************************************)
TypeOf(v) == v[1]

\* <ty as DecodeItfValue>::decode for the field types bool, String and Value
DecodeItfValue(ty, v) ==
  CASE ty = "bool" -> IF v[1] = "Bool" THEN Ok(v[2]) ELSE Err(TypeMismatch("Bool", TypeOf(v)))
    [] ty = "String" -> IF v[1] = "String" THEN Ok(v[2]) ELSE Err(TypeMismatch("String", TypeOf(v)))
    [] ty = "Value" -> Ok(v)

Keys(entries) == {entries[i][1] : i \in DOMAIN entries}

Lookup(entries, k) == entries[CHOOSE i \in DOMAIN entries : entries[i][1] = k][2]

\* <HashMap<String, Value> as DecodeItfValue>::decode
DecodeHashMap(v) ==
  IF v[1] = "Record" THEN Ok([k \in Keys(v[2]) |-> Lookup(v[2], k)])
  ELSE Err(TypeMismatch("Record", TypeOf(v)))

\* HashMap::remove: the map left behind
Remove(m, k) == [x \in (DOMAIN m) \ {k} |-> m[x]]

(***************************************************************************)
(* The generated decoders.                                                  *)
(***************************************************************************)
\* the generated match of a unit enumeration: first arm whose guard holds
RunUnitEnum(arms, v) ==
  IF v[1] = "String" /\ \E i \in DOMAIN arms : arms[i][1] = v[2]
  THEN Ok(<<arms[IndexOf(arms, v[2])][2], <<>>>>)
  ELSE Err(InvalidType("string"))

\* mutant: the tag entry is read but left in the record
RunNamedEnumHead_TagKept(tag, arms, v) ==
  LET rec == DecodeHashMap(v)
  IN IF ~IsOk(rec) THEN rec
     ELSE IF tag \notin DOMAIN rec[2] THEN Err(UnknownTag(tag))
     ELSE LET t == DecodeItfValue("String", rec[2][tag])
          IN IF ~IsOk(t) THEN t
             ELSE IF \E i \in DOMAIN arms : arms[i][1] = t[2]
             THEN Ok(<<rec[2], arms[IndexOf(arms, t[2])][2]>>)
             ELSE Err(UnknownVariant(t[2]))

\* the head of the generated decoder of a named-field enumeration, up to the
\* match on the tag: an error, or <<record left, selected arm>>
RunNamedEnumHead(tag, arms, v) ==
  LET rec == DecodeHashMap(v)
  IN IF ~IsOk(rec) THEN rec
     ELSE IF tag \notin DOMAIN rec[2] THEN Err(UnknownTag(tag))
     ELSE LET t == DecodeItfValue("String", rec[2][tag])
          IN IF ~IsOk(t) THEN t
             ELSE IF \E i \in DOMAIN arms : arms[i][1] = t[2]
             THEN Ok(<<Remove(rec[2], tag), arms[IndexOf(arms, t[2])][2]>>)
             ELSE Err(UnknownVariant(t[2]))

(***************************************************************************)
(* Inputs explored.                                                         *)
(***************************************************************************)
SeqsUpTo(S, n) == UNION {[1 .. k -> S] : k \in 0 .. n}

\* the members of the index set s in increasing order
RECURSIVE Ascending(_)
Ascending(s) ==
  IF s = {} THEN <<>>
  ELSE LET m == CHOOSE x \in s : \A y \in s : x <= y IN <<m>> \o Ascending(s \ {m})

\* records of at most n entries, keys drawn from the sequence keys (unique,
\* in that order), values from vals
RecordsOver(keys, vals, n) ==
  UNION {{[i \in DOMAIN Ascending(s) |-> <<keys[Ascending(s)[i]], f[Ascending(s)[i]]>>] :
            f \in [s -> vals]} :
         s \in {t \in SUBSET (DOMAIN keys) : Cardinality(t) <= n}}

\* sequences of at most n items, idents drawn from the sequence idents
\* (distinct, in that order), the rest of each item from rest
ItemsOver(idents, rest, n) ==
  UNION {{[i \in DOMAIN Ascending(s) |-> <<idents[Ascending(s)[i]]>> \o f[Ascending(s)[i]]] :
            f \in [s -> rest]} :
         s \in {t \in SUBSET (DOMAIN idents) : Cardinality(t) <= n}}

\* ---- reflective path
I64 == <<"int", "i64">>

NumValues == {Number(n) : n \in I64Samples} \cup {BigInt(n) : n \in IntSamples}

\* 200 = 2^8 - 56: an i64 that fits no i8
Elems == {Number(Small(1)), Number(Small(2)), Number(<<2, -56>>), Bool(TRUE), Unserializable}

Payloads ==
  {Number(Small(1)), String("Foo"), Unserializable, Record(<<>>),
   List(<<>>), List(<<Number(Small(1))>>), List(<<Number(Small(1)), Number(Small(2))>>),
   Tuple(<<>>), Tuple(<<Number(Small(1))>>), Tuple(<<Number(Small(1)), Number(Small(2))>>)}

VariantKeys == <<"Foo", "Bar", "Baz">>

Scalars ==
  {Bool(TRUE), Number(Small(1)), Number(<<2, -56>>), BigInt(Small(1)), BigInt(<<7, 0>>),
   String("Foo"), String("Bar"), String("Qux"), Unserializable}

TopValues ==
  Scalars \cup {List(<<>>), List(<<Number(Small(1))>>), Tuple(<<Number(Small(1))>>),
                Set(<<Number(Small(1))>>), Map(<<>>), Map(<<<<String("Foo"), Number(Small(1))>>>>),
                Record(<<>>), Record(<<<<"Foo", Number(Small(1))>>>>)}

RValues ==
  TopValues
    \cup {List(s) : s \in SeqsUpTo(Elems, MaxLen)}
    \cup {Tuple(s) : s \in SeqsUpTo(Elems, MaxLen)}
    \cup {Record(r) : r \in RecordsOver(VariantKeys, Payloads, MaxEntries)}

BaseVisitors ==
  {<<"bool">>, <<"String">>, <<"f64">>, <<"unit">>, IgnoredAny, <<"Any">>, <<"ByteBuf">>,
   <<"int", "i8">>, I64, <<"int", "u64">>}

TupleVisitors == {<<"Tuple", ts>> : ts \in UNION {[1 .. k -> {I64}] : k \in 1 .. MaxLen}}

VariantShapes ==
  {<<"Unit">>, <<"Newtype", I64>>, <<"Struct", <<>>>>, <<"Struct", <<<<"x", I64>>>>>>}
    \cup {<<"Tuple", ts>> : ts \in UNION {[1 .. k -> {I64}] : k \in 2 .. MaxLen}}

EnumVisitors == {<<"Enum", <<<<"Foo", sh>>, <<"Bar", <<"Unit">>>>>>>> : sh \in VariantShapes}

Visitors ==
  BaseVisitors \cup TupleVisitors
    \cup {<<"Option", t>> : t \in {<<"bool">>, I64, IgnoredAny, <<"Any">>}}
    \cup {<<"Newtype", t>> : t \in {<<"bool">>, I64, IgnoredAny, <<"Any">>}}
    \cup {<<"Vec", I64>>, <<"Vec", <<"int", "i8">>>>, <<"Vec", <<"Any">>>>,
          <<"HashMap", <<"String">>, I64>>,
          <<"HashMap", <<"Any">>, <<"Any">>>>,
          <<"Struct", <<<<"Foo", I64>>>>>>, <<"Struct", <<<<"Foo", I64>>, <<"Bar", <<"Any">>>>>>>>}

\* ---- generated path
FieldIdents == <<"count", "tag", "n">>

FieldAttrs == {<<>>, <<<<"rename", "n">>>>}

NamedFieldLists ==
  ItemsOver(FieldIdents, {<<a, ty>> : a \in FieldAttrs, ty \in {"bool", "String"}}, MaxFields)

VariantIdents == <<"A", "B", "C">>

VariantAttrs == {<<>>, <<<<"rename", "Z">>>>}

VariantFields ==
  {<<"Unit">>, <<"Unnamed", <<"bool">>>>, <<"Named", <<>>>>,
   <<"Named", <<<<"count", <<<<"rename", "n">>>>, "bool">>>>>>,
   <<"Named", <<<<"tag", <<>>, "String">>>>>>}

VariantLists ==
  {vs \in ItemsOver(VariantIdents, {<<a, f>> : a \in VariantAttrs, f \in VariantFields},
                    MaxVariants) :
     \A i \in DOMAIN vs : vs[i][1] = VariantIdents[i]}

EnumAttrs == {<<>>, <<<<"tag", "kind">>>>}

Declarations ==
  {<<<<"Struct", <<"Named", fs>>>>, <<>>>> : fs \in NamedFieldLists}
    \cup {<<<<"Struct", <<"Unnamed", <<"bool">>>>>>, <<>>>>, <<<<"Struct", <<"Unit">>>>, <<>>>>,
          <<<<"Union">>, <<>>>>}
    \cup {<<<<"Enum", vs>>, a>> : vs \in VariantLists, a \in EnumAttrs}

RecordKeys == <<"tag", "kind", "count", "n">>

FieldValues == {String("A"), String("Z"), Bool(TRUE)}

GenRecords == RecordsOver(RecordKeys, FieldValues, MaxEntries)

GenValues ==
  {Record(r) : r \in GenRecords}
    \cup {Number(Small(1)), String("A"), String("B"), String("C"), String("Z"), Bool(TRUE),
          List(<<>>), Unserializable}

(***************************************************************************)
(* The state machine.  A behaviour is one decode call, or one macro         *)
(* expansion followed by one call of the decoder it generated.              *)
(***************************************************************************)
Init ==
  /\ pc = "idle"
  /\ call = ""
  /\ tgt = <<>>
  /\ arg = <<>>
  /\ dcl = <<>>
  /\ hmap = <<>>
  /\ todo = <<>>
  /\ cons = ""
  /\ built = <<>>
  /\ enumde = <<>>
  /\ result = NoResult

\* decode_value::<T>(value)
DecodeValue ==
  /\ pc = "idle"
  /\ \E t \in Visitors, v \in RValues :
       /\ call' = EntryPointOf(t)
       /\ tgt' = t
       /\ arg' = v
       /\ result' = decode_value(t, v)
  /\ pc' = "done"
  /\ UNCHANGED <<dcl, hmap, todo, cons, built, enumde>>

\* any entry point of the Deserializer, driven by any visitor
CallDeserializer ==
  /\ pc = "idle"
  /\ \E ep \in EntryPoints \ {"enum"}, visitor \in BaseVisitors, v \in TopValues :
       /\ call' = ep
       /\ tgt' = visitor
       /\ arg' = v
       /\ result' = Deserializer(ep, v, visitor)
  /\ pc' = "done"
  /\ UNCHANGED <<dcl, hmap, todo, cons, built, enumde>>

\* deserialize_enum up to the call of visitor.visit_enum
DeserializeEnum ==
  /\ pc = "idle"
  /\ \E visitor \in EnumVisitors \cup {IgnoredAny, <<"bool">>}, v \in RValues :
       /\ call' = "enum"
       /\ tgt' = visitor
       /\ arg' = v
       /\ LET a == enum_access(v)
          IN IF IsOk(a)
             THEN pc' = "visit_enum" /\ enumde' = a[2] /\ result' = result
             ELSE pc' = "done" /\ enumde' = enumde /\ result' = a
  /\ UNCHANGED <<dcl, hmap, todo, cons, built>>

\* visitor.visit_enum(EnumDeserializer { variant, value }): the rest of the call
VisitEnum ==
  /\ pc = "visit_enum"
  /\ result' = Deserializer("enum", arg, tgt)
  /\ pc' = "done"
  /\ UNCHANGED <<call, tgt, arg, dcl, hmap, todo, cons, built, enumde>>

\* deserialize_i8 .. deserialize_u128 by the visitor of the same width
DecodeInteger ==
  /\ pc = "idle"
  /\ \E ty \in IntTypes, v \in NumValues :
       /\ call' = ty
       /\ tgt' = <<"int", ty>>
       /\ arg' = v
       /\ result' = decode_value(<<"int", ty>>, v)
  /\ pc' = "done"
  /\ UNCHANGED <<dcl, hmap, todo, cons, built, enumde>>

\* deserialize_any of a number
DecodeAnyNumber ==
  /\ pc = "idle"
  /\ \E visitor \in {<<"Any">>, I64, <<"int", "i8">>}, v \in NumValues :
       /\ call' = "any"
       /\ tgt' = visitor
       /\ arg' = v
       /\ result' = Deserializer("any", v, visitor)
  /\ pc' = "done"
  /\ UNCHANGED <<dcl, hmap, todo, cons, built, enumde>>

\* #[derive(DecodeItfValue)] / #[derive(TryFromRawState)] on a declaration
Derive ==
  /\ pc = "idle"
  /\ \E d \in Declarations, m \in {"DecodeItfValue", "TryFromRawState"} :
       /\ call' = m
       /\ dcl' = d
       /\ tgt' = IF m = "DecodeItfValue" THEN itf_decode(d[1], d[2])
                 ELSE try_from_raw_state(d[1], d[2])
  /\ pc' = "generated"
  /\ UNCHANGED <<arg, hmap, todo, cons, built, enumde, result>>

\* the generated decode of a unit enumeration
UnitEnumDecode ==
  /\ pc = "generated"
  /\ tgt[1] = "unit_enum"
  /\ \E v \in GenValues :
       /\ arg' = v
       /\ result' = RunUnitEnum(tgt[2], v)
  /\ pc' = "done"
  /\ UNCHANGED <<call, tgt, dcl, hmap, todo, cons, built, enumde>>

\* the generated decode of a struct, up to the constructor call
StructDecode ==
  /\ pc = "generated"
  /\ tgt[1] = "struct"
  /\ \E v \in GenValues :
       /\ arg' = v
       /\ LET m == DecodeHashMap(v)
          IN IF IsOk(m)
             THEN /\ pc' = "fields"
                  /\ hmap' = m[2]
                  /\ cons' = tgt[2][1]
                  /\ todo' = tgt[2][2]
                  /\ result' = result
             ELSE /\ pc' = "done"
                  /\ result' = m
                  /\ UNCHANGED <<hmap, cons, todo>>
  /\ UNCHANGED <<call, tgt, dcl, built, enumde>>

\* the generated try_from of a struct: the fields come out of raw_state.values
RawStateTryFrom ==
  /\ pc = "generated"
  /\ tgt[1] = "raw_state"
  /\ \E r \in GenRecords :
       /\ arg' = <<"RawState", r>>
       /\ hmap' = [k \in Keys(r) |-> Lookup(r, k)]
  /\ pc' = "fields"
  /\ cons' = tgt[2][1]
  /\ todo' = tgt[2][2]
  /\ UNCHANGED <<call, tgt, dcl, built, enumde, result>>

\* the generated decode of a named-field enumeration, up to the match arm
NamedEnumDecode ==
  /\ pc = "generated"
  /\ tgt[1] = "named_enum"
  /\ \E v \in GenValues :
       /\ arg' = v
       /\ LET h == RunNamedEnumHead(tgt[2], tgt[3], v)
          IN IF IsOk(h)
             THEN /\ pc' = "fields"
                  /\ hmap' = h[2][1]
                  /\ cons' = h[2][2][1]
                  /\ todo' = h[2][2][2]
                  /\ result' = result
             ELSE /\ pc' = "done"
                  /\ result' = h
                  /\ UNCHANGED <<hmap, cons, todo>>
  /\ UNCHANGED <<call, tgt, dcl, built, enumde>>

\* one field initialiser: map.remove(key).ok_or(FieldNotFound(key))?, decode(..)?
DecodeField ==
  /\ pc = "fields"
  /\ todo # <<>>
  /\ LET name == Head(todo)[1]
         key == Head(todo)[2]
         ty == Head(todo)[3]
     IN IF key \notin DOMAIN hmap
        THEN /\ result' = Err(FieldNotFound(key))
             /\ pc' = "done"
             /\ UNCHANGED <<hmap, todo, built>>
        ELSE LET r == DecodeItfValue(ty, hmap[key])
             IN /\ hmap' = Remove(hmap, key)
                /\ IF IsOk(r)
                   THEN /\ built' = Append(built, <<name, r[2]>>)
                        /\ todo' = Tail(todo)
                        /\ UNCHANGED <<pc, result>>
                   ELSE /\ result' = r
                        /\ pc' = "done"
                        /\ UNCHANGED <<todo, built>>
  /\ UNCHANGED <<call, tgt, arg, dcl, cons, enumde>>

\* Ok(cons { .. }) once every initialiser has been evaluated
Construct ==
  /\ pc = "fields"
  /\ todo = <<>>
  /\ result' = Ok(<<cons, built>>)
  /\ pc' = "done"
  /\ UNCHANGED <<call, tgt, arg, dcl, hmap, todo, cons, built, enumde>>

NextNum == DecodeInteger \/ DecodeAnyNumber

NextDe == DecodeValue \/ CallDeserializer \/ DeserializeEnum \/ VisitEnum

NextGen ==
  Derive \/ UnitEnumDecode \/ StructDecode \/ RawStateTryFrom \/ NamedEnumDecode
    \/ DecodeField \/ Construct

Next == NextNum \/ NextDe \/ NextGen

\* the integer entry points
SpecNum == Init /\ [][NextNum]_vars

\* the reflective deserializer
SpecDe == Init /\ [][NextDe]_vars

\* the derive macros and the decoders they generate
SpecGen == Init /\ [][NextGen]_vars

Spec == Init /\ [][Next]_vars

(***************************************************************************)
(* Properties.                                                              *)
(***************************************************************************)
\* the value of the last name = "value" entry of attrs, or dflt
LastAttr(attrs, name, dflt) ==
  IF \E i \in DOMAIN attrs : attrs[i][1] = name
  THEN attrs[CHOOSE i \in DOMAIN attrs :
               attrs[i][1] = name /\ \A j \in DOMAIN attrs : attrs[j][1] = name => j <= i][2]
  ELSE dflt

\* the configured name of a field or variant <<ident, attrs, ..>>
ConfiguredName(item) == LastAttr(item[2], "rename", item[1])

ConfiguredNames(items) == {ConfiguredName(items[i]) : i \in DOMAIN items}

FirstNamed(items, name) ==
  items[CHOOSE i \in DOMAIN items :
          ConfiguredName(items[i]) = name
            /\ \A j \in 1 .. (i - 1) : ConfiguredName(items[j]) # name]

\* C1: a Number that does not fit the integer target decodes to the range
\* error carrying the value and the target's name; the call never aborts.
C1_NumberOutOfRangeIsError ==
  (pc = "done" /\ call \in IntTypes /\ arg[1] = "Number" /\ ~Fits(call, arg[2]))
    => result = Err(NumberError(arg[2], call))

\* C2: a BigInt decoded into an integer target succeeds with the value when
\* it fits the width and is the range error otherwise; no other error, no abort.
C2_BigIntCheckedNarrowing ==
  (pc = "done" /\ tgt[1] = "int" /\ arg[1] = "BigInt")
    => IF Fits(tgt[2], arg[2])
       THEN result = Ok(arg[2])
       ELSE result \in {Err(BigIntError(arg[2], tgt[2])), Err(NumberError(arg[2], tgt[2]))}

\* C3: a generated unit enumeration decodes String(s) to the variant whose
\* configured name is s, to UnknownVariant(s) when no variant has that name,
\* and any other value to InvalidType("string").
C3_UnitEnumDecode ==
  (pc = "done" /\ tgt[1] = "unit_enum")
    => IF arg[1] = "String"
       THEN IF arg[2] \in ConfiguredNames(dcl[1][2])
            THEN result = Ok(<<FirstNamed(dcl[1][2], arg[2])[1], <<>>>>)
            ELSE result = Err(UnknownVariant(arg[2]))
       ELSE result = Err(InvalidType("string"))

\* the source record of the decode call, as keys and lookups
ArgKeys == Keys(arg[2])

ArgAt(k) == Lookup(arg[2], k)

\* C4: a generated named-field enumeration with tag field T (default "tag")
\* decodes a Record without key T to UnknownTag(T), a Record whose T entry is
\* a String naming no variant to UnknownVariant(that string), and otherwise
\* decodes the selected variant's fields by name from the same record with
\* the T entry removed.
C4_InternallyTaggedEnum ==
  (pc \in {"fields", "done"} /\ tgt[1] = "named_enum" /\ arg[1] = "Record")
    => LET T == LastAttr(dcl[2], "tag", "tag")
           vs == dcl[1][2]
       IN /\ T \notin ArgKeys => (pc = "done" /\ result = Err(UnknownTag(T)))
          /\ (T \in ArgKeys /\ ArgAt(T)[1] = "String" /\ ArgAt(T)[2] \notin ConfiguredNames(vs))
               => (pc = "done" /\ result = Err(UnknownVariant(ArgAt(T)[2])))
          /\ (T \in ArgKeys /\ ArgAt(T)[1] = "String" /\ ArgAt(T)[2] \in ConfiguredNames(vs))
               => LET v == FirstNamed(vs, ArgAt(T)[2])
                  IN /\ cons = v[1]
                     /\ T \notin DOMAIN hmap
                     /\ \A k \in DOMAIN hmap : k \in ArgKeys /\ hmap[k] = ArgAt(k)
                     /\ (pc = "fields" /\ Len(todo) = Len(v[3][2]))
                          => DOMAIN hmap = ArgKeys \ {T}
                     /\ pc = "done"
                          => \/ /\ IsOk(result)
                                /\ result[2][1] = v[1]
                                /\ \A i \in DOMAIN v[3][2] :
                                     /\ ConfiguredName(v[3][2][i]) # T
                                     /\ result[2][2][i][1] = v[3][2][i][1]
                             \/ /\ IsErr(result)
                                /\ result[2][1] \in {"FieldNotFound", "TypeMismatch"}

\* C4 witness: a tagged record selected a variant and its field was decoded
\* from the sibling entry
C4_Witness ==
  /\ pc = "done"
  /\ tgt[1] = "named_enum"
  /\ IsOk(result)
  /\ Len(built) = 1
  /\ Cardinality(ArgKeys) = 2
  /\ LastAttr(dcl[2], "tag", "tag") \in ArgKeys

\* C5: deserialize_enum hands a variant to the visitor only for a Record of
\* exactly one entry (key = variant, value = payload) or a String (variant
\* without payload); a Record of zero or several entries is always the error
\* "invalid value: map, expected map with a single key", and every other
\* value is an error.
C5_SingleEntryRecord ==
  (call = "enum" /\ pc \in {"visit_enum", "done"})
    => /\ (arg[1] = "Record" /\ Len(arg[2]) # 1)
            => /\ pc = "done"
               /\ enumde = <<>>
               /\ result = Err(invalid_value(<<"Map">>, "map with a single key"))
       /\ (arg[1] = "Record" /\ Len(arg[2]) = 1)
            => enumde = <<arg[2][1][1], Some(arg[2][1][2])>>
       /\ arg[1] = "String" => enumde = <<arg[2], None>>
       /\ arg[1] \notin {"Record", "String"}
            => /\ pc = "done"
               /\ enumde = <<>>
               /\ result = Err(invalid_type(unexpected(arg), "string or map"))
       /\ (pc = "done" /\ IsOk(result) /\ tgt[1] = "Enum") => result[2][1] = enumde[1]

\* C5 witness: a record of two entries was refused whatever its entries hold
C5_Witness ==
  /\ pc = "done"
  /\ call = "enum"
  /\ arg[1] = "Record"
  /\ Len(arg[2]) = 2
  /\ arg[2][1][2] = Tuple(<<Number(Small(1)), Number(Small(2))>>)
  /\ IsErr(result)

\* C6: a single-entry Record whose value is a non-empty List of n elements
\* decodes into the positional variant of n fields named by the key, field
\* by field.
C6_ListPayloadTupleVariant ==
  (/\ pc = "done"
   /\ call = "enum"
   /\ tgt[1] = "Enum"
   /\ arg[1] = "Record"
   /\ Len(arg[2]) = 1
   /\ arg[2][1][2][1] = "List"
   /\ arg[2][1][1] \in Names(tgt[2])
   /\ tgt[2][IndexOf(tgt[2], arg[2][1][1])][2][1] = "Tuple"
   /\ Len(tgt[2][IndexOf(tgt[2], arg[2][1][1])][2][2]) = Len(arg[2][1][2][2]))
    => result = Ok(<<arg[2][1][1],
                     [i \in DOMAIN arg[2][1][2][2] |-> arg[2][1][2][2][i][2]]>>)

\* the declared fields the running constructor call decodes, and the record
\* they are looked up in
FieldPhase == pc \in {"fields", "done"} /\ cons # ""



VariantIndex == CHOOSE j \in DOMAIN dcl[1][2] : dcl[1][2][j][1] = cons

FieldList == IF dcl[1][1] = "Struct" THEN dcl[1][2][2] ELSE dcl[1][2][VariantIndex][3][2]

SrcKeys == IF dcl[1][1] = "Struct" THEN ArgKeys ELSE ArgKeys \ {LastAttr(dcl[2], "tag", "tag")}

\* field i finds its key and decodes, and no earlier field took the key
FieldOk(i) ==
  /\ ConfiguredName(FieldList[i]) \in SrcKeys
  /\ IsOk(DecodeItfValue(FieldList[i][3], ArgAt(ConfiguredName(FieldList[i]))))
  /\ \A j \in 1 .. (i - 1) : ConfiguredName(FieldList[j]) # ConfiguredName(FieldList[i])

\* C7: each declared field is looked up under its configured name only: if
\* that key is absent the result is FieldNotFound(configured name), whatever
\* else the record holds; an empty record and a declared field give
\* FieldNotFound of that field; keys of no declared field never cause an error.
C7_FieldLookupByConfiguredName ==
  (FieldPhase /\ pc = "done")
    => /\ \A i \in DOMAIN FieldList :
            ((\A j \in 1 .. (i - 1) : FieldOk(j)) /\ ConfiguredName(FieldList[i]) \notin SrcKeys)
              => result = Err(FieldNotFound(ConfiguredName(FieldList[i])))
       /\ (SrcKeys = {} /\ FieldList # <<>>)
            => result = Err(FieldNotFound(ConfiguredName(FieldList[1])))
       /\ (\A i \in DOMAIN FieldList : FieldOk(i))
            => result =
                 Ok(<<cons,
                      [i \in DOMAIN FieldList |->
                         <<FieldList[i][1],
                           DecodeItfValue(FieldList[i][3],
                                          ArgAt(ConfiguredName(FieldList[i])))[2]>>]>>)
       /\ (IsErr(result) /\ result[2][1] = "FieldNotFound")
            => result[2][2] \in ConfiguredNames(FieldList)

\* C7 witness: field `count` renamed "n", the record holds "count" and no
\* "n", and the decode ended FieldNotFound("n")
C7_Witness ==
  /\ pc = "done"
  /\ tgt[1] = "struct"
  /\ arg[1] = "Record"
  /\ dcl[1][2][2] = <<<<"count", <<<<"rename", "n">>>>, "bool">>>>
  /\ ArgKeys = {"count"}
  /\ result = Err(FieldNotFound("n"))

\* C8: a tuple target of n components accepts only a Tuple or List of
\* exactly n elements; a shorter or longer sequence is rejected with an error.
C8_TupleArityChecked ==
  (pc = "done" /\ call = "tuple" /\ tgt[1] = "Tuple")
    => /\ IsOk(result) => (arg[1] \in {"Tuple", "List"} /\ Len(arg[2]) = Len(tgt[2]))
       /\ (arg[1] \in {"Tuple", "List"} /\ Len(arg[2]) # Len(tgt[2])) => IsErr(result)

\* the target reached through Option / newtype wrappers
RECURSIVE Innermost(_)
Innermost(t) == IF t[1] \in {"Option", "Newtype"} THEN Innermost(t[2]) ELSE t

UnserializableInvalidType(exp) == Err(invalid_type(<<"Other", "unserializable">>, exp))

\* C9 as stated: every decode of an Unserializable value fails with
\* UnsupportedType, through every entry point.
C9_UnserializableAlwaysUnsupported ==
  (pc = "done" /\ arg = Unserializable) => result = Err(UnsupportedType("unserializable"))

\* C9, amended: an Unserializable value fails with UnsupportedType through
\* deserialize_any and with the invalid-type error through the typed entry
\* points; deserialize_option and deserialize_newtype_struct hand it to the
\* inner target and succeed only when that target ignores its input;
\* deserialize_ignored_any drops it and succeeds whenever the visitor takes a
\* unit.
C9_UnserializableByEntryPoint ==
  (pc = "done" /\ arg = Unserializable)
    => CASE call = "any" -> result = Err(UnsupportedType("unserializable"))
         [] call = "ignored_any" ->
              IF tgt[1] \in {"IgnoredAny", "unit", "Any"} THEN IsOk(result)
              ELSE result = Err(invalid_type(<<"Unit">>, tgt))
         [] call \in {"option", "newtype_struct"} ->
              \/ IsOk(result) /\ Innermost(tgt) = IgnoredAny
              \/ IsErr(result) /\ Innermost(tgt) # IgnoredAny
         [] call = "enum" -> result = UnserializableInvalidType("string or map")
         [] OTHER -> result = UnserializableInvalidType(tgt)

\* C9 witness: the ignoring target decoded an Unserializable value
C9_Witness ==
  /\ pc = "done"
  /\ arg = Unserializable
  /\ call = "ignored_any"
  /\ tgt = IgnoredAny
  /\ result = Ok(IgnoredAny)

\* C10: the macro generates a decoder for an enumeration only if all its
\* variants are unit or all have named fields; any other declaration ends in
\* a compile error, so no decoder runs over an unsupported variant shape.
C10_EnumShapesCheckedAtExpansion ==
  (pc # "idle" /\ dcl[1][1] = "Enum")
    => LET vs == dcl[1][2]
           allUnit == \A i \in DOMAIN vs : vs[i][3][1] = "Unit"
           allNamed == \A i \in DOMAIN vs : vs[i][3][1] = "Named"
       IN /\ call = "DecodeItfValue"
               => /\ tgt[1] = "unit_enum" <=> allUnit
                  /\ tgt[1] = "named_enum" <=> (allNamed /\ ~allUnit)
                  /\ tgt[1] = "compile_error" <=> ~(allUnit \/ allNamed)
          /\ call = "TryFromRawState" => IsPanic(tgt)
          /\ tgt # Panic("unreachable")
          /\ pc \in {"fields", "done"} => (allUnit \/ allNamed)

\* C10 witness: a declaration mixing a unit and a named-field variant was
\* rejected when the macro expanded
C10_Witness ==
  /\ pc = "generated"
  /\ call = "DecodeItfValue"
  /\ dcl[1][1] = "Enum"
  /\ Len(dcl[1][2]) = 2
  /\ dcl[1][2][1][3][1] = "Unit"
  /\ dcl[1][2][2][3][1] = "Named"
  /\ tgt[1] = "compile_error"

\* ---- unit variants carrying an empty payload

\* the shape a target enum declares for the variant named by the key
ShapeOf(visitor, key) == visitor[2][IndexOf(visitor[2], key)][2]

\* C11: a single-entry Record whose payload is empty (a zero-arity Tuple or an
\* empty List), keyed by a unit variant of the target enum, decodes
\* successfully, to the result String(key) decodes to.
C11_EmptyPayloadIsUnitVariant ==
  (/\ pc = "done"
   /\ call = "enum"
   /\ tgt[1] = "Enum"
   /\ arg[1] = "Record"
   /\ Len(arg[2]) = 1
   /\ arg[2][1][2] \in {Tuple(<<>>), List(<<>>)}
   /\ arg[2][1][1] \in Names(tgt[2])
   /\ ShapeOf(tgt, arg[2][1][1])[1] = "Unit")
    => /\ IsOk(result)
       /\ result = Deserializer("enum", String(arg[2][1][1]), tgt)

\* ---- children in order, first failure ends the call

\* what the i-th declared field yields by itself: its key is looked up in what
\* the earlier fields left of the record, then its value is decoded
FieldOutcome(i) ==
  LET key == ConfiguredName(FieldList[i])
  IN IF key \notin SrcKeys \/ \E j \in 1 .. (i - 1) : ConfiguredName(FieldList[j]) = key
     THEN Err(FieldNotFound(key))
     ELSE DecodeItfValue(FieldList[i][3], ArgAt(key))

FailingFields == {i \in DOMAIN FieldList : ~IsOk(FieldOutcome(i))}

\* what the i-th element of the source List yields by itself
ElementOutcome(i) == Deserialize(tgt[2], arg[2][i])

FailingElements == {i \in DOMAIN arg[2] : ~IsOk(ElementOutcome(i))}

ListDecode == pc = "done" /\ call = "seq" /\ tgt[1] = "Vec" /\ arg[1] = "List"

\* C12: children are decoded in order and the first failure ends the call.  A
\* generated struct decoder takes the fields in declaration order: the call
\* returns the error of the first field that is missing or fails to decode,
\* unmodified, no field after it has been looked up or decoded, and no value
\* is constructed.  A List decode takes the elements by position: the call
\* ends as the first element that fails to decode ends, and succeeds with
\* every element in place when none fails.
C12_FirstFailureInOrder ==
  /\ (FieldPhase /\ pc = "done")
       => IF FailingFields = {}
          THEN IsOk(result) /\ todo = <<>> /\ Len(built) = Len(FieldList)
          ELSE \E i \in FailingFields :
                 /\ \A j \in FailingFields : i <= j
                 /\ result = FieldOutcome(i)
                 /\ Len(built) = i - 1
                 /\ Len(todo) = Len(FieldList) - i + 1
                 /\ \A k \in DOMAIN todo : todo[k][1] = FieldList[i + k - 1][1]
                 /\ DOMAIN hmap
                      = SrcKeys \ {ConfiguredName(FieldList[j]) : j \in 1 .. i}
  /\ ListDecode
       => IF FailingElements = {}
          THEN result = Ok([i \in DOMAIN arg[2] |-> ElementOutcome(i)[2]])
          ELSE \E i \in FailingElements :
                 /\ \A j \in FailingElements : i <= j
                 /\ result = ElementOutcome(i)

\* a List of two elements that fail differently, decoded into a Vec
C12_Witness ==
  /\ ListDecode
  /\ Len(arg[2]) >= 2
  /\ 1 \in FailingElements
  /\ 2 \in FailingElements
  /\ ElementOutcome(1) # ElementOutcome(2)
  /\ result = ElementOutcome(1)

====
